---- MODULE Spec2Model ----
(***************************************************************************)
(* Human-in-the-loop social media agent: the LangGraph workflow            *)
(* (generate -> request_approval -> process_feedback -> publish), its      *)
(* checkpointer, and the two front-ends that drive it (the FastAPI         *)
(* service of src/web/api.py and the MCP server of src/mcp/server.py).     *)
(*                                                                         *)
(* Text is a sequence of one-character strings, so that strip(), lower(),  *)
(* split() and the f-strings of the source are computed, not assumed.      *)
(* An optional value (Python's None) is <<>>; a present value x is <<x>>.  *)
(***************************************************************************)
EXTENDS Integers, Sequences, FiniteSets, TLC

\* ------------------------------------------------------------------ bounds
\* resume requests the clients send to registered threads
MaxResumes == 3
\* whitespace characters put around a resume string
MaxPad == 1

\* ------------------------------------------------------- optional values
None == <<>>

Some(x) == <<x>>

IsNone(o) == o = <<>>

Val(o) == o[1]

\* ------------------------------------------------------------------ text
UpperChars == <<"A", "B", "C", "D", "E", "F", "G", "H", "I", "J", "K", "L", "M",
                "N", "O", "P", "Q", "R", "S", "T", "U", "V", "W", "X", "Y", "Z">>

LowerChars == <<"a", "b", "c", "d", "e", "f", "g", "h", "i", "j", "k", "l", "m",
                "n", "o", "p", "q", "r", "s", "t", "u", "v", "w", "x", "y", "z">>

Whitespace == {" ", "\n", "\t"}

\* str.lower() on one character
LowerChar(c) ==
    IF \E i \in 1..Len(UpperChars) : UpperChars[i] = c
    THEN LowerChars[CHOOSE i \in 1..Len(UpperChars) : UpperChars[i] = c]
    ELSE c

\* str.lower()
Lower(s) == [i \in 1..Len(s) |-> LowerChar(s[i])]

RECURSIVE LStrip(_)
\* str.lstrip(): drop leading whitespace
LStrip(s) ==
    IF s # <<>> /\ Head(s) \in Whitespace THEN LStrip(Tail(s)) ELSE s

RECURSIVE RStrip(_)
\* str.rstrip(): drop trailing whitespace
RStrip(s) ==
    IF s # <<>> /\ s[Len(s)] \in Whitespace
    THEN RStrip(SubSeq(s, 1, Len(s) - 1))
    ELSE s

\* str.strip()
Strip(s) == RStrip(LStrip(s))

RECURSIVE LStripChar(_, _)
\* str.lstrip(c): drop every leading c
LStripChar(s, c) ==
    IF s # <<>> /\ Head(s) = c THEN LStripChar(Tail(s), c) ELSE s

\* str.startswith(p)
StartsWith(s, p) == Len(s) >= Len(p) /\ SubSeq(s, 1, Len(p)) = p

\* s[n:]
DropFirst(s, n) == SubSeq(s, n + 1, Len(s))

\* s[:n] of a list
TakeFirst(s, n) == SubSeq(s, 1, IF Len(s) < n THEN Len(s) ELSE n)

RECURSIVE SplitAcc(_, _, _)
SplitAcc(s, sep, cur) ==
    IF s = <<>> THEN <<cur>>
    ELSE IF Head(s) = sep THEN <<cur>> \o SplitAcc(Tail(s), sep, <<>>)
    ELSE SplitAcc(Tail(s), sep, Append(cur, Head(s)))

\* str.split(sep) with a one-character separator
Split(s, sep) == SplitAcc(s, sep, <<>>)

RECURSIVE JoinWith(_, _)
\* sep.join(parts)
JoinWith(parts, sep) ==
    IF parts = <<>> THEN <<>>
    ELSE IF Len(parts) = 1 THEN parts[1]
    ELSE parts[1] \o sep \o JoinWith(Tail(parts), sep)

\* Python's len() of a string
StrLen(s) == Len(s)

\* ---------------------------------------------------------------- enums
\* class PostStatus
DRAFT == "draft"

PENDING_APPROVAL == "pending_approval"

APPROVED == "approved"

REJECTED == "rejected"

PUBLISHED == "published"

FAILED == "failed"

PostStatus == {DRAFT, PENDING_APPROVAL, APPROVED, REJECTED, PUBLISHED, FAILED}

\* class Platform
TWITTER == "twitter"

LINKEDIN == "linkedin"

Platform == {TWITTER, LINKEDIN}

\* -------------------------------------------------------- PostContent
PostContent(text, platform, hashtags) ==
    [text |-> text, platform |-> platform, hashtags |-> hashtags]

RECURSIVE HashJoin(_)
\* " ".join(f"#{tag}" for tag in hashtags)
HashJoin(tags) ==
    IF tags = <<>> THEN <<>>
    ELSE IF Len(tags) = 1 THEN <<"#">> \o tags[1]
    ELSE <<"#">> \o tags[1] \o <<" ">> \o HashJoin(Tail(tags))

\* a formatted_text that puts the hashtags on the line after the text
formatted_text_no_blank_line(pc) ==
    IF pc.hashtags # <<>>
    THEN pc.text \o <<"\n">> \o HashJoin(pc.hashtags)
    ELSE pc.text

\* PostContent.formatted_text
formatted_text(pc) ==
    IF pc.hashtags # <<>>
    THEN pc.text \o <<"\n", "\n">> \o HashJoin(pc.hashtags)
    ELSE pc.text

\* PostContent.char_count
char_count(pc) == StrLen(formatted_text(pc))

\* ------------------------------------------------------ HumanFeedback
FeedbackActions == {"approve", "reject", "edit"}

HumanFeedback(action, edited_text, feedback_message) ==
    [action |-> action, edited_text |-> edited_text,
     feedback_message |-> feedback_message]

\* a key that a resume dict does not have
Missing == "<missing>"

\* a resume value: a string (chars) or a dict with the keys of HumanFeedback
StrValue(chars) ==
    [kind |-> "str", chars |-> chars, action |-> Missing,
     edited_text |-> None, feedback_message |-> None]

DictValue(action, edited_text, feedback_message) ==
    [kind |-> "dict", chars |-> <<>>, action |-> action,
     edited_text |-> edited_text, feedback_message |-> feedback_message]

\* str(response) of a resume value that is a string
StrOf(response) == response.chars

\* the outcome of a call that either returns a value or raises
Returned(v) == [ok |-> TRUE, value |-> v]

Raised == [ok |-> FALSE, value |-> HumanFeedback("approve", None, None)]

\* HumanFeedback(**response): pydantic validates action against the Literal
ValidateFeedback(response) ==
    IF response.action \in FeedbackActions
    THEN Returned(HumanFeedback(response.action, response.edited_text,
                                response.feedback_message))
    ELSE Raised

APPROVE_STR == <<"a", "p", "p", "r", "o", "v", "e">>

REJECT_STR == <<"r", "e", "j", "e", "c", "t">>

EDIT_PREFIX == <<"e", "d", "i", "t", ":">>

UNCLEAR_PREFIX == <<"U", "n", "c", "l", "e", "a", "r", " ", "r", "e", "s", "p",
                    "o", "n", "s", "e", ":", " ">>

\* _parse_human_response
_parse_human_response(response) ==
    IF response.kind = "dict" THEN ValidateFeedback(response)
    ELSE LET response_str == Lower(Strip(StrOf(response)))
         IN  IF response_str = APPROVE_STR
             THEN Returned(HumanFeedback("approve", None, None))
             ELSE IF response_str = REJECT_STR
             THEN Returned(HumanFeedback("reject", None, None))
             ELSE IF StartsWith(response_str, EDIT_PREFIX)
             THEN Returned(HumanFeedback("edit",
                      Some(Strip(DropFirst(response_str, 5))), None))
             ELSE Returned(HumanFeedback("approve", None,
                      Some(UNCLEAR_PREFIX \o StrOf(response))))

\* ---------------------------------------------------------- AgentState
\* AgentState.max_attempts default
DefaultMaxAttempts == 3

\* an error_message: its text and, for the attempt limit, the limit it names
ErrorMessage(text, limit) == [text |-> text, limit |-> limit]

\* AgentState(topic=..., platform=..., tone=..., additional_context=...,
\* thread_id=...) with every other field at its default.  The messages log is
\* append-only and read by no node or front-end; it is left out.
AgentState(topic, platform, tone, additional_context, thread_id) ==
    [topic |-> topic, platform |-> platform, tone |-> tone,
     additional_context |-> additional_context,
     post_content |-> None,
     status |-> DRAFT,
     human_feedback |-> None,
     generation_attempts |-> 0,
     max_attempts |-> DefaultMaxAttempts,
     published_url |-> None,
     error_message |-> None,
     thread_id |-> thread_id]

\* ------------------------------------------------------------- nodes
\* hashtags asked of the LLM and kept: 3 for Twitter, 5 otherwise
TwitterHashtags == 3

OtherHashtags == 5

num_hashtags(platform) ==
    IF platform = TWITTER THEN TwitterHashtags ELSE OtherHashtags

RECURSIVE CleanTags(_)
\* [tag.strip().lstrip("#") for tag in lines if tag.strip()]
CleanTags(lines) ==
    IF lines = <<>> THEN <<>>
    ELSE IF Strip(Head(lines)) # <<>>
    THEN <<LStripChar(Strip(Head(lines)), "#")>> \o CleanTags(Tail(lines))
    ELSE CleanTags(Tail(lines))

\* a generate_post that asks for approval without keeping the draft it made
generate_post_no_draft(state, llm) ==
    [state EXCEPT !.status = PENDING_APPROVAL,
                  !.generation_attempts = state.generation_attempts + 1]

\* a generate_post that keeps every hashtag the LLM returned
generate_post_all_tags(state, llm) ==
    LET post_text == Strip(llm.text)
        hashtags  == CleanTags(Split(Strip(llm.tags), "\n"))
        post_content == PostContent(post_text, state.platform, hashtags)
    IN  [state EXCEPT !.post_content = Some(post_content),
                      !.status = PENDING_APPROVAL,
                      !.generation_attempts = state.generation_attempts + 1]

\* a generate_post that also writes the platform back, as the default
generate_post_reset_platform(state, llm) ==
    LET post_text == Strip(llm.text)
        hashtags  == CleanTags(Split(Strip(llm.tags), "\n"))
        post_content ==
            PostContent(post_text, state.platform,
                        TakeFirst(hashtags, num_hashtags(state.platform)))
    IN  [state EXCEPT !.post_content = Some(post_content),
                      !.platform = TWITTER,
                      !.status = PENDING_APPROVAL,
                      !.generation_attempts = state.generation_attempts + 1]

\* generate_post, given the two LLM responses' content
generate_post(state, llm) ==
    LET post_text == Strip(llm.text)
        hashtags  == CleanTags(Split(Strip(llm.tags), "\n"))
        post_content ==
            PostContent(post_text, state.platform,
                        TakeFirst(hashtags, num_hashtags(state.platform)))
    IN  [state EXCEPT !.post_content = Some(post_content),
                      !.status = PENDING_APPROVAL,
                      !.generation_attempts = state.generation_attempts + 1]

\* the approval_request payload of request_approval
approval_request(state) ==
    [type |-> "approval_request",
     post_text |-> formatted_text(Val(state.post_content)),
     platform |-> state.platform,
     char_count |-> char_count(Val(state.post_content)),
     generation_attempt |-> state.generation_attempts]

\* a request_approval that takes the answer but does not record it
request_approval_drop_feedback(state, feedback) == state

\* request_approval after interrupt() returned the parsed feedback
request_approval(state, feedback) ==
    [state EXCEPT !.human_feedback = Some(feedback)]

\* request_approval when post_content is None
request_approval_no_content(state) ==
    [state EXCEPT !.error_message =
        Some(ErrorMessage("No post content to approve", 0))]

\* bool(s) of an optional string: None and "" are falsy
Truthy(opt) == ~IsNone(opt) /\ Val(opt) # <<>>

\* a process_feedback that fails an exhausted thread without saying why
process_feedback_no_error(state) ==
    IF IsNone(state.human_feedback)
    THEN [state EXCEPT !.status = PENDING_APPROVAL]
    ELSE LET feedback == Val(state.human_feedback)
         IN  IF feedback.action = "approve"
             THEN [state EXCEPT !.status = APPROVED]
             ELSE IF feedback.action = "reject"
             THEN IF state.generation_attempts >= state.max_attempts
                  THEN [state EXCEPT !.status = FAILED]
                  ELSE [state EXCEPT !.status = DRAFT,
                                     !.human_feedback = None]
             ELSE IF ~IsNone(state.post_content) /\ Truthy(feedback.edited_text)
             THEN [state EXCEPT
                      !.post_content =
                          Some(PostContent(Val(feedback.edited_text),
                                           state.platform,
                                           Val(state.post_content).hashtags)),
                      !.status = APPROVED]
             ELSE [state EXCEPT !.status = APPROVED]

\* a process_feedback that sends a rejected draft back with the rejection
\* still in the state
process_feedback_keep_feedback(state) ==
    IF IsNone(state.human_feedback)
    THEN [state EXCEPT !.status = PENDING_APPROVAL]
    ELSE LET feedback == Val(state.human_feedback)
         IN  IF feedback.action = "approve"
             THEN [state EXCEPT !.status = APPROVED]
             ELSE IF feedback.action = "reject"
             THEN IF state.generation_attempts >= state.max_attempts
                  THEN [state EXCEPT
                           !.status = FAILED,
                           !.error_message =
                               Some(ErrorMessage("Max generation attempts reached",
                                                 state.max_attempts))]
                  ELSE [state EXCEPT !.status = DRAFT]
             ELSE IF ~IsNone(state.post_content) /\ Truthy(feedback.edited_text)
             THEN [state EXCEPT
                      !.post_content =
                          Some(PostContent(Val(feedback.edited_text),
                                           state.platform,
                                           Val(state.post_content).hashtags)),
                      !.status = APPROVED]
             ELSE [state EXCEPT !.status = APPROVED]

\* a process_feedback that allows one regeneration more than the budget
process_feedback_off_by_one(state) ==
    IF IsNone(state.human_feedback)
    THEN [state EXCEPT !.status = PENDING_APPROVAL]
    ELSE LET feedback == Val(state.human_feedback)
         IN  IF feedback.action = "approve"
             THEN [state EXCEPT !.status = APPROVED]
             ELSE IF feedback.action = "reject"
             THEN IF state.generation_attempts > state.max_attempts
                  THEN [state EXCEPT
                           !.status = FAILED,
                           !.error_message =
                               Some(ErrorMessage("Max generation attempts reached",
                                                 state.max_attempts))]
                  ELSE [state EXCEPT !.status = DRAFT,
                                     !.human_feedback = None]
             ELSE IF ~IsNone(state.post_content) /\ Truthy(feedback.edited_text)
             THEN [state EXCEPT
                      !.post_content =
                          Some(PostContent(Val(feedback.edited_text),
                                           state.platform,
                                           Val(state.post_content).hashtags)),
                      !.status = APPROVED]
             ELSE [state EXCEPT !.status = APPROVED]

\* process_feedback
process_feedback(state) ==
    IF IsNone(state.human_feedback)
    THEN [state EXCEPT !.status = PENDING_APPROVAL]
    ELSE LET feedback == Val(state.human_feedback)
         IN  IF feedback.action = "approve"
             THEN [state EXCEPT !.status = APPROVED]
             ELSE IF feedback.action = "reject"
             THEN IF state.generation_attempts >= state.max_attempts
                  THEN [state EXCEPT
                           !.status = FAILED,
                           !.error_message =
                               Some(ErrorMessage("Max generation attempts reached",
                                                 state.max_attempts))]
                  ELSE [state EXCEPT !.status = DRAFT,
                                     !.human_feedback = None]
             ELSE IF feedback.action = "edit"
             THEN IF ~IsNone(state.post_content) /\ Truthy(feedback.edited_text)
                  THEN [state EXCEPT
                           !.post_content =
                               Some(PostContent(Val(feedback.edited_text),
                                                state.platform,
                                                Val(state.post_content).hashtags)),
                           !.status = APPROVED]
                  ELSE [state EXCEPT !.status = APPROVED]
             ELSE [state EXCEPT !.status = PENDING_APPROVAL]

\* publish_post when post_content is None
publish_post_no_content(state) ==
    [state EXCEPT !.status = FAILED,
                  !.error_message =
                      Some(ErrorMessage("No post content to publish", 0))]

\* a publish_post that fills in published_url also when the connector failed
publish_post_url_always(state, outcome) ==
    IF outcome.ok
    THEN [state EXCEPT !.status = PUBLISHED, !.published_url = outcome.url]
    ELSE [state EXCEPT !.status = FAILED,
                       !.published_url = Some("N/A"),
                       !.error_message = Some(ErrorMessage(outcome.error, 0))]

\* a publish_post that records the success but not the url it was given
publish_post_no_url(state, outcome) ==
    IF outcome.ok
    THEN [state EXCEPT !.status = PUBLISHED]
    ELSE [state EXCEPT !.status = FAILED,
                       !.error_message = Some(ErrorMessage(outcome.error, 0))]

\* publish_post, given what connector.publish did
publish_post(state, outcome) ==
    IF outcome.ok
    THEN [state EXCEPT !.status = PUBLISHED, !.published_url = outcome.url]
    ELSE [state EXCEPT !.status = FAILED,
                       !.error_message = Some(ErrorMessage(outcome.error, 0))]

\* a router that sends every thread that was not approved back to the
\* draft node
should_regenerate_retry(state) ==
    IF state.status = APPROVED THEN "publish" ELSE "generate"

\* a router that sends a rejected draft on to publishing
should_regenerate_ungated(state) ==
    IF state.status = APPROVED THEN "publish"
    ELSE IF state.status = DRAFT THEN "publish"
    ELSE "end"

\* should_regenerate, mapped through the conditional edges of create_graph
should_regenerate(state) ==
    IF state.status = APPROVED THEN "publish"
    ELSE IF state.status = DRAFT THEN "generate"
    ELSE "end"

\* ---------------------------------------------------------------- state
VARIABLES
    frontend,         \* which server main.py runs: "http" (api) or "mcp"
    checkpoints,      \* the MemorySaver of the graph that ran start: thread -> checkpoint
    pending_threads,  \* the front-end's registry: thread -> entry
    inv,              \* the requests in flight, one per slot, with their graph invocation
    started,          \* thread ids handed out so far
    resumes,          \* resumes so far that found a checkpoint to go on from
    lost,             \* history: threads that were suspended when the process restarted
    draft_runs,       \* history: completed executions of the draft node, per thread
    publish_calls,    \* history: calls of connector.publish, per thread
    only_rejects,     \* history: every resume value sent for the thread was reject
    parse_in,         \* a resume value handed to _parse_human_response
    parse_out,        \* what _parse_human_response made of it, once applied
    clock,            \* what datetime.utcnow() returns, in ticks
    replay,           \* a checkpoint run again: its inputs and the results so far
    draft_in,         \* a PostContent whose properties are read
    render_out,       \* its formatted_text and char_count, once read
    route_in,         \* a state handed to should_regenerate
    route_out         \* the state afterwards and the node it is routed to

vars == <<frontend, checkpoints, pending_threads, inv, started, resumes, lost,
          draft_runs, publish_calls, only_rejects, parse_in, parse_out,
          clock, replay, draft_in, render_out, route_in, route_out>>

\* the variables of the studies of single functions; the server's handlers
\* leave them alone
parse_vars == <<parse_in, parse_out, clock, replay, draft_in, render_out,
                route_in, route_out>>

\* the thread ids a client can name; uuid4 hands them out in this order
Threads == {1, 2}

\* the request slots of the event loop: two, so that requests can overlap
Reqs == {1, 2}

\* the thread ids handed out while requests overlap; id 2 is never started
OneThread == {1}

\* ----------------------------------------------------------- input sets
Topics == {<<"A", "I">>}

Tones == {<<"p", "r", "o">>}

Contexts == {<<>>}

\* what the completion collaborator may answer: the post text and the
\* hashtag lines
LLMResponses ==
    {[text |-> <<" ", "H", "i", " ">>, tags |-> <<"a", "\n", "#", "b">>],
     [text |-> <<"Y", "o">>,
      tags |-> <<"a", "\n", "\n", "b", "\n", "c", "\n", "d", "\n", "e", "\n",
                 "f", "\n">>]}

\* what connector.publish may do: return a url or raise
PublishOutcomes ==
    {[ok |-> TRUE, url |-> Some("https://post/1"), error |-> ""],
     [ok |-> FALSE, url |-> None, error |-> "publish failed"]}

NEW_COPY == <<"N", "e", "w">>

\* the feedback dict approve_post builds from a valid ApprovalRequest
HttpFeedbacks ==
    {DictValue("approve", None, None),
     DictValue("reject", None, None),
     DictValue("edit", Some(NEW_COPY), None),
     DictValue("edit", Some(<<>>), None),
     DictValue("edit", None, None)}

\* the feedback dict handle_approve builds for its three tools
McpFeedbacks ==
    {DictValue("approve", None, None),
     DictValue("reject", None, Some(<<>>)),
     DictValue("edit", Some(NEW_COPY), None),
     DictValue("edit", Some(<<>>), None)}

Feedbacks == IF frontend = "http" THEN HttpFeedbacks ELSE McpFeedbacks

\* ----------------------------------------------------------- checkpoints
\* a checkpoint: the state values and the node that runs next ("end": none)
Checkpoint(values, next) == [values |-> values, next |-> next]

Terminal(status) == status \in {PUBLISHED, FAILED}

\* what a checkpoint slot holds, as far as a resume is concerned
CursorClass(cp) ==
    IF IsNone(cp) THEN "absent"
    ELSE IF Val(cp).next = "request_approval" THEN "suspended"
    ELSE IF Terminal(Val(cp).values.status) THEN "terminal"
    ELSE "running"

\* MemorySaver(): a saver with no checkpoint
MemorySaver == [t \in Threads |-> None]

\* get_compiled_graph(): compile_graph() with no checkpointer, hence a graph
\* over a new MemorySaver, whatever earlier graphs saved
get_compiled_graph(saved) == MemorySaver

\* the saver behind the graph a resume handler invokes: api.py keeps one
\* module-level compiled_graph, server.py calls get_compiled_graph() per call
ResumeSaver ==
    IF frontend = "http" THEN checkpoints ELSE get_compiled_graph(checkpoints)

\* ------------------------------------------------------------ invocations
IdleInv ==
    [pc |-> "idle", kind |-> "none", tid |-> 0, resume |-> None, st |-> None,
     held |-> "none", loaded |-> "none", code |-> "none", platform |-> "none"]

\* a handler's response: pc "responded", the code ("ok", "not_found",
\* "error"), the platform field, and in st the result it describes
Responded(r) == inv[r].pc = "responded"

\* the request's handler has not returned yet
InFlight(r) == inv[r].pc \notin {"idle", "responded"}

\* the slot holds no request
Free(r) == inv[r].pc = "idle"

\* the event loop gives a new request the lowest free slot
FreeSlot(r) == Free(r) /\ \A q \in Reqs : q < r => ~Free(q)

\* the graph loop persists the merged state and the next node after a node ran
Save(t, values, next) ==
    checkpoints' = [checkpoints EXCEPT ![t] = Some(Checkpoint(values, next))]

\* ---------------------------------------------------------------- Init
WorkflowInit ==
    /\ checkpoints = MemorySaver
    /\ pending_threads = [t \in Threads |-> None]
    /\ inv = [r \in Reqs |-> IdleInv]
    /\ started = 0
    /\ resumes = 0
    /\ lost = {}
    /\ draft_runs = [t \in Threads |-> 0]
    /\ publish_calls = [t \in Threads |-> 0]
    /\ only_rejects = [t \in Threads |-> TRUE]

\* no state is being routed
NoState == AgentState(<<>>, TWITTER, <<>>, <<>>, 0)

\* no PostContent is being read
NoDraft == PostContent(<<>>, TWITTER, <<>>)

\* no checkpoint is being run again
NoReplay == [cp |-> None, resume |-> None, llm |-> None, outcome |-> None,
             results |-> <<>>]

Init ==
    /\ frontend \in {"http", "mcp"}
    /\ WorkflowInit
    /\ parse_in = StrValue(<<>>)
    /\ parse_out = None
    /\ clock = 0
    /\ replay = NoReplay
    /\ draft_in = NoDraft
    /\ render_out = None
    /\ route_in = NoState
    /\ route_out = None

\* ------------------------------------------------- the graph, node by node
\* ainvoke(initial_state.model_dump(), config) under a new uuid4 thread id:
\* the input is checkpointed and the entry node, generate, is scheduled
StartBegin(r, topic, platform, tone, context, startable) ==
    /\ FreeSlot(r)
    /\ started + 1 \in startable
    /\ LET t == started + 1
           initial_state == AgentState(topic, platform, tone, context, t)
       IN  /\ started' = t
           /\ Save(t, initial_state, "generate")
           /\ inv' = [inv EXCEPT ![r] =
                  [IdleInv EXCEPT !.pc = "generate", !.kind = "start",
                                  !.tid = t, !.st = Some(initial_state),
                                  !.held = "fresh", !.loaded = "fresh"]]
    /\ UNCHANGED <<frontend, pending_threads, lost, draft_runs, publish_calls,
                   only_rejects, parse_vars, resumes>>

\* the generate node returns: the LLM answered both prompts
GenerateReturn(r, llm) ==
    /\ inv[r].pc = "generate"
    /\ LET t == inv[r].tid
           new == generate_post(Val(inv[r].st), llm)
       IN  /\ Save(t, new, "request_approval")
           /\ inv' = [inv EXCEPT ![r].pc = "request_approval",
                                 ![r].st = Some(new),
                                 ![r].resume = None]
           /\ draft_runs' = [draft_runs EXCEPT ![t] = @ + 1]
    /\ UNCHANGED <<frontend, pending_threads, started, lost, publish_calls,
                   only_rejects, parse_vars, resumes>>

\* the generate node raises: an LLM call failed; nothing is written
GenerateRaise(r) ==
    /\ inv[r].pc = "generate"
    /\ inv' = [inv EXCEPT ![r].pc = "raised", ![r].resume = None]
    /\ UNCHANGED <<frontend, checkpoints, pending_threads, started, lost,
                   draft_runs, publish_calls, only_rejects, parse_vars, resumes>>

\* the request_approval node: without content it records an error; with a
\* resume value interrupt() returns it and the feedback is parsed (or the
\* validation raises); otherwise interrupt() suspends the graph, which
\* returns the state to its caller
RequestApproval(r) ==
    /\ inv[r].pc = "request_approval"
    /\ LET t == inv[r].tid
           state == Val(inv[r].st)
           parsed == _parse_human_response(Val(inv[r].resume))
       IN  IF IsNone(state.post_content)
           THEN /\ Save(t, request_approval_no_content(state), "process_feedback")
                /\ inv' = [inv EXCEPT
                       ![r].pc = "process_feedback",
                       ![r].st = Some(request_approval_no_content(state)),
                       ![r].resume = None]
           ELSE IF IsNone(inv[r].resume)
           THEN /\ inv' = [inv EXCEPT ![r].pc = "interrupted"]
                /\ UNCHANGED checkpoints
           ELSE IF parsed.ok
           THEN /\ Save(t, request_approval(state, parsed.value),
                        "process_feedback")
                /\ inv' = [inv EXCEPT
                       ![r].pc = "process_feedback",
                       ![r].st = Some(request_approval(state, parsed.value)),
                       ![r].resume = None]
           ELSE /\ inv' = [inv EXCEPT ![r].pc = "raised", ![r].resume = None]
                /\ UNCHANGED checkpoints
    /\ UNCHANGED <<frontend, pending_threads, started, lost, draft_runs,
                   publish_calls, only_rejects, parse_vars, resumes>>

\* the process_feedback node and the conditional edge after it
ProcessFeedback(r) ==
    /\ inv[r].pc = "process_feedback"
    /\ LET t == inv[r].tid
           new == process_feedback(Val(inv[r].st))
       IN  /\ Save(t, new, should_regenerate(new))
           /\ inv' = [inv EXCEPT ![r].pc = should_regenerate(new),
                                 ![r].st = Some(new),
                                 ![r].resume = None]
    /\ UNCHANGED <<frontend, pending_threads, started, lost, draft_runs,
                   publish_calls, only_rejects, parse_vars, resumes>>

\* the publish node up to its await: without content it fails at once,
\* otherwise connector.publish(formatted_text) is called
PublishCall(r) ==
    /\ inv[r].pc = "publish"
    /\ LET t == inv[r].tid
           state == Val(inv[r].st)
       IN  IF IsNone(state.post_content)
           THEN /\ Save(t, publish_post_no_content(state), "end")
                /\ inv' = [inv EXCEPT
                       ![r].pc = "end",
                       ![r].st = Some(publish_post_no_content(state)),
                       ![r].resume = None]
                /\ UNCHANGED publish_calls
           ELSE /\ inv' = [inv EXCEPT ![r].pc = "publish_wait",
                                      ![r].resume = None]
                /\ publish_calls' = [publish_calls EXCEPT ![t] = @ + 1]
                /\ UNCHANGED checkpoints
    /\ UNCHANGED <<frontend, pending_threads, started, lost, draft_runs,
                   only_rejects, parse_vars, resumes>>

\* BaseConnector.max_length of the two connectors
TwitterMaxLength == 280

LinkedInMaxLength == 3000

max_length(platform) ==
    IF platform = TWITTER THEN TwitterMaxLength ELSE LinkedInMaxLength

\* BaseConnector.validate_content
validate_content(platform, content) ==
    ~(StrLen(content) > max_length(platform)) /\ Strip(content) # <<>>

\* the publish node after its await: the connector returned or raised (it
\* raises on content that does not validate); either way the node returns
PublishReturn(r, outcome) ==
    /\ inv[r].pc = "publish_wait"
    /\ LET t == inv[r].tid
           state == Val(inv[r].st)
           new == publish_post(state, outcome)
       IN  /\ outcome.ok =>
                  validate_content(state.platform,
                                   formatted_text(Val(state.post_content)))
           /\ Save(t, new, "end")
           /\ inv' = [inv EXCEPT ![r].pc = "end", ![r].st = Some(new)]
    /\ UNCHANGED <<frontend, pending_threads, started, lost, draft_runs,
                   publish_calls, only_rejects, parse_vars, resumes>>

\* ------------------------------------------------------------ front-ends
\* the registry entry generate_post / handle_generate_post stores
PendingEntry(topic, platform, result) ==
    [topic |-> topic, platform |-> platform, result |-> result]

\* result.get("status", default) of an ainvoke result (None: the empty dict)
ResultStatus(result, default) ==
    IF IsNone(result) THEN default ELSE Val(result).status

\* post_content.formatted_text if post_content else None
ResultText(result) ==
    IF IsNone(result) \/ IsNone(Val(result).post_content) THEN None
    ELSE Some(formatted_text(Val(Val(result).post_content)))

\* pending_threads.get(thread_id, {}).get("platform", "twitter")
RegistryPlatform(registry, t) ==
    IF IsNone(registry[t]) THEN TWITTER ELSE Val(registry[t]).platform

\* start: the graph returned (it suspended at request_approval); the thread
\* is registered and described to the caller
StartReturn(r) ==
    /\ inv[r].kind = "start"
    /\ inv[r].pc \in {"interrupted", "end"}
    /\ LET t == inv[r].tid
           result == inv[r].st
           state == Val(result)
       IN  /\ pending_threads' = [pending_threads EXCEPT ![t] =
                  Some(PendingEntry(state.topic, state.platform, result))]
           /\ inv' = [inv EXCEPT ![r].pc = "responded", ![r].code = "ok",
                                 ![r].platform = state.platform]
    /\ UNCHANGED <<frontend, checkpoints, started, lost, draft_runs,
                   publish_calls, only_rejects, parse_vars, resumes>>

\* start: the graph raised; HTTP 500 / "Error generating post", no entry
StartError(r) ==
    /\ inv[r].kind = "start"
    /\ inv[r].pc = "raised"
    /\ inv' = [inv EXCEPT ![r].pc = "responded", ![r].code = "error"]
    /\ UNCHANGED <<frontend, checkpoints, pending_threads, started, lost,
                   draft_runs, publish_calls, only_rejects, parse_vars, resumes>>

\* resume of a thread_id that is not in pending_threads: HTTP 404 /
\* "Thread not found"
ApproveNotFound(r, t) ==
    /\ FreeSlot(r)
    /\ IsNone(pending_threads[t])
    /\ inv' = [inv EXCEPT ![r] =
           [IdleInv EXCEPT !.pc = "responded", !.kind = "resume", !.tid = t,
                           !.code = "not_found",
                           !.held = CursorClass(checkpoints[t])]]
    /\ UNCHANGED <<frontend, checkpoints, pending_threads, started, lost,
                   draft_runs, publish_calls, only_rejects, parse_vars, resumes>>

\* resume of a registered thread: ainvoke(Command(resume=feedback), config)
\* loads the thread's checkpoint from the handler's graph and goes on at its
\* next node; with no next node it returns the stored values; with no
\* checkpoint at all the library either raises or returns an empty result
ApproveBegin(r, t, feedback) ==
    /\ FreeSlot(r)
    /\ IsNone(ResumeSaver[t]) \/ resumes < MaxResumes
    /\ ~IsNone(pending_threads[t])
    /\ LET cp == ResumeSaver[t]
           base == [IdleInv EXCEPT !.kind = "resume", !.tid = t,
                                   !.held = CursorClass(checkpoints[t]),
                                   !.loaded = CursorClass(cp)]
       IN  IF IsNone(cp)
           THEN \E pc \in {"raised", "end"} :
                    inv' = [inv EXCEPT ![r] = [base EXCEPT !.pc = pc]]
           ELSE IF Val(cp).next = "end"
           THEN inv' = [inv EXCEPT ![r] =
                    [base EXCEPT !.pc = "end", !.st = Some(Val(cp).values)]]
           ELSE inv' = [inv EXCEPT ![r] =
                    [base EXCEPT !.pc = Val(cp).next,
                                 !.st = Some(Val(cp).values),
                                 !.resume = Some(feedback)]]
    /\ only_rejects' =
           [only_rejects EXCEPT ![t] = @ /\ feedback.action = "reject"]
    /\ resumes' = IF IsNone(ResumeSaver[t]) THEN resumes ELSE resumes + 1
    /\ UNCHANGED <<frontend, checkpoints, pending_threads, started, lost,
                   draft_runs, publish_calls, parse_vars>>

\* resume: the graph returned; a published or failed thread leaves the
\* registry, any other result is stored in its entry (KeyError, hence an
\* error response, when the entry is gone); the response's platform is read
\* from the registry afterwards
ApproveReturn(r) ==
    /\ inv[r].kind = "resume"
    /\ inv[r].pc \in {"interrupted", "end"}
    /\ LET t == inv[r].tid
           result == inv[r].st
           status == ResultStatus(result, "unknown")
           popped == [pending_threads EXCEPT ![t] = None]
           stored == [pending_threads EXCEPT ![t] =
                         Some([Val(pending_threads[t]) EXCEPT !.result = result])]
           answer(registry) ==
               [inv EXCEPT ![r].pc = "responded", ![r].code = "ok",
                           ![r].platform = IF frontend = "http"
                                           THEN RegistryPlatform(registry, t)
                                           ELSE "none"]
       IN  IF Terminal(status)
           THEN /\ pending_threads' = popped
                /\ inv' = answer(popped)
           ELSE IF IsNone(pending_threads[t])
           THEN /\ UNCHANGED pending_threads
                /\ inv' = [inv EXCEPT ![r].pc = "responded",
                                      ![r].code = "error"]
           ELSE /\ pending_threads' = stored
                /\ inv' = answer(stored)
    /\ UNCHANGED <<frontend, checkpoints, started, lost, draft_runs,
                   publish_calls, only_rejects, parse_vars, resumes>>

\* resume: the graph raised; HTTP 500 / "Error: ...", registry as it was
ApproveError(r) ==
    /\ inv[r].kind = "resume"
    /\ inv[r].pc = "raised"
    /\ inv' = [inv EXCEPT ![r].pc = "responded", ![r].code = "error"]
    /\ UNCHANGED <<frontend, checkpoints, pending_threads, started, lost,
                   draft_runs, publish_calls, only_rejects, parse_vars, resumes>>

\* the response has been sent; the slot is free again
Deliver(r) ==
    /\ Responded(r)
    /\ inv' = [inv EXCEPT ![r] = IdleInv]
    /\ UNCHANGED <<frontend, checkpoints, pending_threads, started, lost,
                   draft_runs, publish_calls, only_rejects, parse_vars, resumes>>

\* the threads that wait for their human: registered, suspended at the
\* approval node, and with no invocation running
Suspended ==
    {t \in Threads :
        /\ CursorClass(checkpoints[t]) = "suspended"
        /\ ~IsNone(pending_threads[t])
        /\ \A r \in Reqs : inv[r].tid = t => inv[r].pc \in {"idle", "responded"}}

\* the server process stops and a new one starts: the module-level
\* MemorySaver and pending_threads are new and empty (lifespan also clears
\* the registry on shutdown); requests in flight are gone
Restart ==
    /\ \E t \in Threads : ~IsNone(checkpoints[t])
    /\ lost' = lost \cup Suspended
    /\ checkpoints' = MemorySaver
    /\ pending_threads' = [t \in Threads |-> None]
    /\ inv' = [r \in Reqs |-> IdleInv]
    /\ UNCHANGED <<frontend, started, draft_runs, publish_calls, only_rejects,
                   parse_vars, resumes>>

\* ---------------------------------------------------------------- Next
\* the steps of the server, for the request slots and thread ids in use
NextOver(reqs, startable) ==
    \/ \E r \in reqs, topic \in Topics, platform \in Platform,
          tone \in Tones, context \in Contexts :
           StartBegin(r, topic, platform, tone, context, startable)
    \/ \E r \in reqs, llm \in LLMResponses : GenerateReturn(r, llm)
    \/ \E r \in reqs : GenerateRaise(r)
    \/ \E r \in reqs : RequestApproval(r)
    \/ \E r \in reqs : ProcessFeedback(r)
    \/ \E r \in reqs : PublishCall(r)
    \/ \E r \in reqs, outcome \in PublishOutcomes : PublishReturn(r, outcome)
    \/ \E r \in reqs : StartReturn(r)
    \/ \E r \in reqs : StartError(r)
    \/ \E r \in reqs, t \in Threads : ApproveNotFound(r, t)
    \/ \E r \in reqs, t \in Threads, feedback \in Feedbacks :
           ApproveBegin(r, t, feedback)
    \/ \E r \in reqs : ApproveReturn(r)
    \/ \E r \in reqs : ApproveError(r)
    \/ \E r \in reqs : Deliver(r)
    \/ Restart

Next == NextOver(Reqs, OneThread)

Spec == Init /\ [][Next]_vars

\* the same server when its clients send one request at a time
NextSeq == NextOver({1}, OneThread)

SpecSeq == Init /\ [][NextSeq]_vars

\* ------------------------------------------- _parse_human_response alone
\* the whitespace a human may type around an answer
Pads == {p \in UNION {[1..n -> {" ", "\n"}] : n \in 0..MaxPad} : TRUE}

\* answers a human may type
Words ==
    {APPROVE_STR,
     <<"A", "p", "p", "r", "o", "v", "e">>,
     <<"A", "P", "P", "R", "O", "V", "E">>,
     <<"a", "p", "p", "r", "o", "v", "e", "d">>,
     REJECT_STR,
     <<"R", "e", "j", "e", "c", "t">>,
     <<"e", "d", "i", "t", ":", "N", "e", "w">>,
     <<"E", "d", "i", "t", ":", " ", "N", "e", "w", " ", "C", "o", "p", "y">>,
     <<"e", "d", "i", "t", ":">>,
     <<"e", "d", "i", "t">>,
     <<"y", "e", "s">>,
     <<"p", "u", "b", "l", "i", "s", "h">>,
     <<>>}

\* the action values a structured resume object may carry
DictActions == FeedbackActions \cup {"publish", "Approve", Missing}

\* the resume values the graph may be handed
ResumeValues ==
    {StrValue(l \o w \o r) : l \in Pads, w \in Words, r \in Pads}
    \cup {DictValue(a, e, None) :
              a \in DictActions, e \in {None, Some(<<>>), Some(NEW_COPY)}}

ParseInit ==
    /\ frontend = "http"
    /\ WorkflowInit
    /\ parse_in \in ResumeValues
    /\ parse_out = None
    /\ clock = 0
    /\ replay = NoReplay
    /\ draft_in = NoDraft
    /\ render_out = None
    /\ route_in = NoState
    /\ route_out = None

\* interrupt() returned parse_in and request_approval parses it
ParseApply ==
    /\ IsNone(parse_out)
    /\ parse_out' = Some(_parse_human_response(parse_in))
    /\ UNCHANGED <<frontend, checkpoints, pending_threads, inv, started,
                   resumes, lost, draft_runs, publish_calls, only_rejects,
                   parse_in, clock, replay, draft_in, render_out, route_in,
                   route_out>>

SpecParse == ParseInit /\ [][ParseApply]_vars

\* ================================================================ claims
\* the persisted state of a thread, when it has a checkpoint
Persisted(t) == Val(checkpoints[t]).values

\* the graph invocation of slot r is between its load and its return
GraphRunning(r) ==
    inv[r].pc \in {"generate", "request_approval", "process_feedback",
                   "publish", "publish_wait"}

\* the step is a restart of the process
IsRestart == checkpoints # MemorySaver /\ checkpoints' = MemorySaver

\* C1 (as claimed): a thread whose every resume value is reject never runs
\* the draft node more than max_attempts times, and once it has FAILED the
\* draft node has run exactly max_attempts times and the error names the
\* attempt limit.
C1_BoundedRegeneration ==
    \A t \in Threads :
        (only_rejects[t] /\ ~IsNone(checkpoints[t])) =>
            /\ draft_runs[t] <= Persisted(t).max_attempts
            /\ Persisted(t).status = FAILED =>
                   /\ draft_runs[t] = Persisted(t).max_attempts
                   /\ Persisted(t).error_message =
                          Some(ErrorMessage("Max generation attempts reached",
                                            Persisted(t).max_attempts))

\* C2 (as claimed): the persisted attempt_count of a thread never decreases,
\* rises by exactly 1 with every completed execution of the draft node, and
\* is changed by nothing else.
C2_AttemptMonotone ==
    [][\A t \in Threads :
          (~IsNone(checkpoints[t]) /\ ~IsNone(checkpoints'[t])) =>
              LET before == Persisted(t).generation_attempts
                  after  == Val(checkpoints'[t]).values.generation_attempts
              IN  /\ after >= before
                  /\ draft_runs'[t] = draft_runs[t] + 1 => after = before + 1
                  /\ draft_runs'[t] = draft_runs[t] => after = before]_vars

\* C3: the publish node runs, and connector.publish is called, only in an
\* invocation that resumed a registered (hence once suspended) thread, with
\* status APPROVED and with a feedback of action approve or edit applied to
\* the draft it publishes; never on a reject and never without feedback.
C3_PublishGated ==
    \A r \in Reqs :
        inv[r].pc \in {"publish", "publish_wait"} =>
            /\ inv[r].kind = "resume"
            /\ inv[r].loaded \in {"suspended", "running"}
            /\ Val(inv[r].st).status = APPROVED
            /\ ~IsNone(Val(inv[r].st).human_feedback)
            /\ Val(Val(inv[r].st).human_feedback).action \in {"approve", "edit"}
            /\ ~IsNone(Val(inv[r].st).post_content)

\* C3 witness: connector.publish is being awaited after an edit was applied.
C3_Witness ==
    \E r \in Reqs :
        /\ inv[r].pc = "publish_wait"
        /\ Val(Val(inv[r].st).human_feedback).action = "edit"
        /\ publish_calls[inv[r].tid] = 1

\* C4 (as claimed): once the persisted status is PUBLISHED or FAILED, the
\* persisted state no longer changes and every resume request that arrives
\* is answered with an error.
C4_TerminalImmutable ==
    [][\A t \in Threads :
          (CursorClass(checkpoints[t]) = "terminal" /\ ~IsRestart) =>
              /\ checkpoints'[t] = checkpoints[t]
              /\ \A r \in Reqs :
                     (Free(r) /\ inv'[r].kind = "resume" /\ inv'[r].tid = t) =>
                         (Responded(r)' /\ inv'[r].code # "ok")]_vars

\* C5 (as claimed): no two graph invocations of one thread are in flight at
\* the same time.
C5_PerThreadSerialized ==
    \A r1, r2 \in Reqs :
        (r1 # r2 /\ GraphRunning(r1) /\ GraphRunning(r2)) =>
            inv[r1].tid # inv[r2].tid

\* C6 (as claimed): connector.publish is called at most once per thread.
C6_PublishAtMostOnce == \A t \in Threads : publish_calls[t] <= 1

\* C7 (as claimed): a resume accepted for a thread that start left suspended
\* loads that suspended checkpoint, in either front-end.
C7_ResumeFindsCheckpoint ==
    \A r \in Reqs :
        (inv[r].kind = "resume" /\ inv[r].code # "not_found"
             /\ inv[r].held = "suspended") =>
            inv[r].loaded = "suspended"

\* C8 (as claimed): a resume for a thread that was suspended when the process
\* restarted is accepted and loads the suspended checkpoint.
C8_SuspensionSurvivesRestart ==
    \A r \in Reqs :
        (inv[r].kind = "resume" /\ inv[r].tid \in lost) =>
            (inv[r].code # "not_found" /\ inv[r].loaded = "suspended")

\* C9 (as claimed): a resume for a thread whose checkpoint is not suspended
\* at the approval node (or that has none) runs no node and is answered with
\* an error.
C9_InvalidResumeFails ==
    \A r \in Reqs :
        (inv[r].kind = "resume" /\ inv[r].held # "suspended") =>
            /\ ~GraphRunning(r)
            /\ Responded(r) => inv[r].code # "ok"

\* a resume value in one of the forms the parser recognizes
Recognized(v) ==
    IF v.kind = "dict" THEN v.action \in FeedbackActions
    ELSE LET n == Lower(Strip(v.chars))
         IN  n = APPROVE_STR \/ n = REJECT_STR \/ StartsWith(n, EDIT_PREFIX)

\* C10 (as claimed): every resume value that is not in a recognized form,
\* string or structured object, is parsed to an approve with a diagnostic
\* message, without raising.
C10_FailOpen ==
    (~IsNone(parse_out) /\ ~Recognized(parse_in)) =>
        /\ Val(parse_out).ok
        /\ Val(parse_out).value.action = "approve"
        /\ ~IsNone(Val(parse_out).value.feedback_message)

\* the suspended state a resume value is applied to when the parser is
\* studied alone: a first draft awaiting approval
ParseState ==
    generate_post(AgentState(<<"A", "I">>, TWITTER, <<"p", "r", "o">>, <<>>, 1),
                  [text |-> <<"H", "i">>, tags |-> <<"a", "\n", "b">>])

\* the draft body once request_approval and process_feedback have applied a
\* parsed feedback to ParseState
BodyAfter(feedback) ==
    Val(process_feedback(request_approval(ParseState, feedback)).post_content).text

\* C11 (as claimed): a resume string "edit:" followed by a replacement text
\* T is parsed to an edit whose edited_text is T, character for character
\* and in the same letter case, and after process_feedback the draft body
\* is T.
C11_StringEditKeepsText ==
    (~IsNone(parse_out) /\ parse_in.kind = "str"
         /\ StartsWith(parse_in.chars, EDIT_PREFIX)
         /\ DropFirst(parse_in.chars, 5) # <<>>) =>
        LET T == DropFirst(parse_in.chars, 5)
        IN  /\ Val(parse_out).ok
            /\ Val(parse_out).value.action = "edit"
            /\ Val(parse_out).value.edited_text = Some(T)
            /\ BodyAfter(Val(parse_out).value) = T

\* slot r runs process_feedback in this step, on an edit of an existing draft
EditApplied(r) ==
    /\ inv[r].pc = "process_feedback"
    /\ inv'[r].pc \notin {"process_feedback", "idle"}
    /\ ~IsNone(Val(inv[r].st).human_feedback)
    /\ Val(Val(inv[r].st).human_feedback).action = "edit"
    /\ ~IsNone(Val(inv[r].st).post_content)

\* the draft of slot r keeps its hashtags, the thread is APPROVED and the
\* graph goes on to publish, with that state persisted
EditAdvances(r) ==
    /\ Val(Val(inv'[r].st).post_content).hashtags =
           Val(Val(inv[r].st).post_content).hashtags
    /\ Val(inv'[r].st).status = APPROVED
    /\ inv'[r].pc = "publish"
    /\ checkpoints'[inv[r].tid] = Some(Checkpoint(Val(inv'[r].st), "publish"))

\* C12 (as claimed): process_feedback on an edit with edited_text T yields a
\* draft with body T and the hashtags of the draft before, status APPROVED,
\* and the graph goes on to publish without suspending.
C12_EditAsClaimed ==
    [][\A r \in Reqs :
          (EditApplied(r)
               /\ ~IsNone(Val(Val(inv[r].st).human_feedback).edited_text)) =>
              /\ Val(Val(inv'[r].st).post_content).text =
                     Val(Val(Val(inv[r].st).human_feedback).edited_text)
              /\ EditAdvances(r)]_vars


\* C13: when connector.publish returns, the publish node ends with status
\* PUBLISHED and the returned url; when it (or the connector lookup or the
\* content validation) raises, the node ends with status FAILED and the
\* failure's message as error.  Either way the node returns, the state is
\* persisted, and the caller of resume gets an answer, not an error.
C13_PublishOutcome ==
    [][\A r \in Reqs :
          /\ (inv[r].pc = "publish_wait"
                  /\ inv'[r].pc \notin {"publish_wait", "idle"}) =>
                 LET old == Val(inv[r].st)
                     new == Val(inv'[r].st)
                 IN  /\ old.status = APPROVED
                     /\ inv'[r].pc = "end"
                     /\ checkpoints'[inv[r].tid] = Some(Checkpoint(new, "end"))
                     /\ \E outcome \in PublishOutcomes :
                            IF outcome.ok
                            THEN /\ new.status = PUBLISHED
                                 /\ new.published_url = outcome.url
                                 /\ ~IsNone(new.published_url)
                                 /\ new.error_message = old.error_message
                            ELSE /\ new.status = FAILED
                                 /\ new.error_message =
                                        Some(ErrorMessage(outcome.error, 0))
                                 /\ new.published_url = old.published_url
          /\ (inv[r].pc = "end" /\ inv[r].kind = "resume"
                  /\ ~IsNone(inv[r].st) /\ Terminal(Val(inv[r].st).status)
                  /\ inv'[r].pc = "responded") =>
                 inv'[r].code = "ok"]_vars

\* C13 witness: a resume whose publish failed has been answered, with the
\* failure recorded in the result.
C13_Witness ==
    \E r \in Reqs :
        /\ Responded(r) /\ inv[r].kind = "resume" /\ inv[r].code = "ok"
        /\ publish_calls[inv[r].tid] >= 1
        /\ Val(inv[r].st).status = FAILED
        /\ Val(inv[r].st).error_message = Some(ErrorMessage("publish failed", 0))

\* C14 (as claimed): a resume of a suspended thread that is answered with an
\* error (the completion collaborator failed in the draft node) leaves the
\* thread as it was before the call: still suspended at the approval node,
\* status PENDING_APPROVAL, no feedback recorded, the draft still there.
C14_FailedResumeLeavesState ==
    \A r \in Reqs :
        (Responded(r) /\ inv[r].kind = "resume" /\ inv[r].code = "error"
             /\ inv[r].held = "suspended") =>
            /\ CursorClass(checkpoints[inv[r].tid]) = "suspended"
            /\ Persisted(inv[r].tid).status = PENDING_APPROVAL
            /\ IsNone(Persisted(inv[r].tid).human_feedback)
            /\ ~IsNone(Persisted(inv[r].tid).post_content)

\* C15: wherever a thread's state has status FAILED, in its checkpoint or in
\* the state a graph invocation holds or returns, error_message is present.
C15_FailedHasError ==
    /\ \A t \in Threads :
           (~IsNone(checkpoints[t]) /\ Persisted(t).status = FAILED) =>
               ~IsNone(Persisted(t).error_message)
    /\ \A r \in Reqs :
           (~IsNone(inv[r].st) /\ Val(inv[r].st).status = FAILED) =>
               ~IsNone(Val(inv[r].st).error_message)

\* C15 witness: a thread has FAILED on its exhausted regeneration budget and
\* its checkpoint names the limit.
C15_Witness ==
    \E t \in Threads :
        /\ ~IsNone(checkpoints[t])
        /\ Persisted(t).status = FAILED
        /\ publish_calls[t] = 0
        /\ Persisted(t).error_message =
               Some(ErrorMessage("Max generation attempts reached",
                                 DefaultMaxAttempts))

\* ------------------------------------------------------------- liveness
\* the server when every approval request is answered and the collaborators
\* return: one request at a time, the LLM and the connector answer (the
\* connector possibly with a failure), the process keeps running
NextLive ==
    \/ \E topic \in Topics, platform \in Platform, tone \in Tones,
          context \in Contexts :
           StartBegin(1, topic, platform, tone, context, OneThread)
    \/ \E llm \in LLMResponses : GenerateReturn(1, llm)
    \/ RequestApproval(1)
    \/ ProcessFeedback(1)
    \/ PublishCall(1)
    \/ \E outcome \in PublishOutcomes : PublishReturn(1, outcome)
    \/ StartReturn(1)
    \/ \E t \in Threads, feedback \in Feedbacks : ApproveBegin(1, t, feedback)
    \/ ApproveReturn(1)
    \/ ApproveError(1)
    \/ Deliver(1)

\* the event loop runs a handler that can run, and the human answers a
\* pending approval request
SpecLive == Init /\ [][NextLive]_vars /\ WF_vars(NextLive)

\* C16 (as claimed): every thread that was started eventually has status
\* PUBLISHED or FAILED, whatever the human answers.
C16_Termination ==
    \A t \in Threads :
        (~IsNone(checkpoints[t])) ~>
            (~IsNone(checkpoints[t]) /\ Terminal(Persisted(t).status))

\* the status changes the workflow is meant to make, with the node making them
StatusSteps ==
    {<<DRAFT, PENDING_APPROVAL, "generate">>,
     <<PENDING_APPROVAL, APPROVED, "process_feedback">>,
     <<PENDING_APPROVAL, DRAFT, "process_feedback">>,
     <<PENDING_APPROVAL, FAILED, "process_feedback">>,
     <<APPROVED, PUBLISHED, "publish_wait">>,
     <<APPROVED, FAILED, "publish_wait">>}

\* C17 (as claimed): every change of a thread's persisted status is one of
\* DRAFT -> PENDING_APPROVAL by the draft node, PENDING_APPROVAL -> APPROVED,
\* DRAFT or FAILED by process_feedback, APPROVED -> PUBLISHED or FAILED by
\* the publish node; the persisted status is never REJECTED.
C17_StatusStateMachine ==
    [][\A t \in Threads :
          /\ ~IsNone(checkpoints'[t]) =>
                 Val(checkpoints'[t]).values.status # REJECTED
          /\ (~IsNone(checkpoints[t]) /\ ~IsNone(checkpoints'[t])
                  /\ Val(checkpoints'[t]).values.status # Persisted(t).status) =>
                 \E r \in Reqs :
                     /\ inv[r].tid = t
                     /\ inv'[r] # inv[r]
                     /\ <<Persisted(t).status,
                          Val(checkpoints'[t]).values.status,
                          inv[r].pc>> \in StatusSteps]_vars

\* slot r executes a node of the graph in this step
NodeRuns(r) ==
    /\ GraphRunning(r)
    /\ inv'[r].pc # inv[r].pc
    /\ ~IsRestart

\* C18 (as claimed): once a thread's persisted status is PUBLISHED or FAILED,
\* no node of the graph executes for that thread any more.
C18_NoNodeAfterTerminal ==
    [][\A t \in Threads :
          (~IsNone(checkpoints[t]) /\ Terminal(Persisted(t).status)) =>
              \A r \in Reqs : inv[r].tid = t => ~NodeRuns(r)]_vars

C20_ApprovalRequestAttempt ==
    \A r \in Reqs :
        inv[r].pc = "interrupted" =>
            LET state == Val(inv[r].st)
                request == approval_request(state)
            IN  /\ request.generation_attempt = state.generation_attempts
                /\ request.generation_attempt = draft_runs[inv[r].tid]
                /\ inv[r].kind = "start" => request.generation_attempt = 1
                /\ request.platform = Val(state.post_content).platform
                /\ request.post_text = formatted_text(Val(state.post_content))
                /\ request.char_count = StrLen(request.post_text)

\* C21: wherever a thread's state has status PENDING_APPROVAL, APPROVED or
\* PUBLISHED, in its checkpoint or in the state a graph invocation holds,
\* the draft (post_content) is present.
C21_DraftBeforeApproval ==
    /\ \A t \in Threads :
           (~IsNone(checkpoints[t])
                /\ Persisted(t).status \in {PENDING_APPROVAL, APPROVED, PUBLISHED}) =>
               ~IsNone(Persisted(t).post_content)
    /\ \A r \in Reqs :
           (~IsNone(inv[r].st)
                /\ Val(inv[r].st).status \in {PENDING_APPROVAL, APPROVED, PUBLISHED}) =>
               ~IsNone(Val(inv[r].st).post_content)

\* C21 witness: a thread went through approval and publishing, and its
\* persisted PUBLISHED state still holds the draft that was published.
C21_Witness ==
    \E t \in Threads :
        /\ ~IsNone(checkpoints[t])
        /\ Persisted(t).status = PUBLISHED
        /\ ~IsNone(Persisted(t).post_content)
        /\ draft_runs[t] >= 1

\* slot r runs process_feedback in this step, on a reject with budget left
RejectApplied(r) ==
    /\ inv[r].pc = "process_feedback"
    /\ inv'[r].pc \notin {"process_feedback", "idle"}
    /\ ~IsNone(Val(inv[r].st).human_feedback)
    /\ Val(Val(inv[r].st).human_feedback).action = "reject"
    /\ Val(inv[r].st).generation_attempts < Val(inv[r].st).max_attempts

\* C22: whenever the draft node is about to run, on the first pass and on
\* every regeneration pass, the state it is given has no feedback, and so has
\* every checkpoint whose next node is the draft node; a reject with budget
\* left sets human_feedback to None in the same update that sets status
\* DRAFT, and that update is what is persisted.
C22_FeedbackCleared ==
    /\ [](/\ \A r \in Reqs :
                 inv[r].pc = "generate" => IsNone(Val(inv[r].st).human_feedback)
          /\ \A t \in Threads :
                 (~IsNone(checkpoints[t]) /\ Val(checkpoints[t]).next = "generate") =>
                     IsNone(Persisted(t).human_feedback))
    /\ [][\A r \in Reqs :
             RejectApplied(r) =>
                 /\ Val(inv'[r].st).status = DRAFT
                 /\ IsNone(Val(inv'[r].st).human_feedback)
                 /\ inv'[r].pc = "generate"
                 /\ checkpoints'[inv[r].tid] =
                        Some(Checkpoint(Val(inv'[r].st), "generate"))]_vars

\* C22 witness: the draft node is about to run again after a reject, with the
\* rejection gone from the state.
C22_Witness ==
    \E r \in Reqs :
        /\ inv[r].pc = "generate"
        /\ inv[r].kind = "resume"
        /\ draft_runs[inv[r].tid] >= 1
        /\ Val(inv[r].st).status = DRAFT
        /\ IsNone(Val(inv[r].st).human_feedback)

\* slot r runs process_feedback in this step, on a recorded feedback
FeedbackApplied(r) ==
    /\ inv[r].pc = "process_feedback"
    /\ inv'[r].pc \notin {"process_feedback", "idle"}
    /\ ~IsNone(Val(inv[r].st).human_feedback)

\* C23 (as claimed): every feedback that process_feedback applies has an
\* edited_text exactly when its action is edit, and an edit's edited_text is
\* a real replacement text (neither None nor empty), so an edit without text
\* never approves the unedited draft.
C23_EditCarriesText ==
    [][\A r \in Reqs :
          FeedbackApplied(r) =>
              LET feedback == Val(Val(inv[r].st).human_feedback)
              IN  /\ ~IsNone(feedback.edited_text) <=> feedback.action = "edit"
                  /\ feedback.action = "edit" => Truthy(feedback.edited_text)]_vars

\* the draft pc carries no more hashtags than its platform allows
WithinHashtagBound(pc) ==
    /\ pc.platform = TWITTER => Len(pc.hashtags) <= TwitterHashtags
    /\ pc.platform = LINKEDIN => Len(pc.hashtags) <= OtherHashtags

\* C24: every draft, persisted or held by a graph invocation, has at most 3
\* hashtags on twitter and at most 5 on linkedin, whatever the LLM returned
\* and after any regenerations and edits.
C24_HashtagBound ==
    /\ \A t \in Threads :
           (~IsNone(checkpoints[t]) /\ ~IsNone(Persisted(t).post_content)) =>
               WithinHashtagBound(Val(Persisted(t).post_content))
    /\ \A r \in Reqs :
           (~IsNone(inv[r].st) /\ ~IsNone(Val(inv[r].st).post_content)) =>
               WithinHashtagBound(Val(Val(inv[r].st).post_content))

\* C24 witness: the LLM returned six hashtags for a twitter post, the draft
\* was regenerated and then edited, and the persisted draft carries three.
C24_Witness ==
    \E t \in Threads :
        /\ ~IsNone(checkpoints[t])
        /\ draft_runs[t] >= 2
        /\ Persisted(t).platform = TWITTER
        /\ ~IsNone(Persisted(t).post_content)
        /\ Val(Persisted(t).post_content).text = NEW_COPY
        /\ Val(Persisted(t).post_content).hashtags = <<<<"a">>, <<"b">>, <<"c">>>>

\* --------------------------------------------------------------- inspect
\* an aget_state that makes a checkpoint for a thread id it does not know
aget_state_creating(saver, t) ==
    [snapshot |-> saver[t],
     saver |-> IF IsNone(saver[t])
               THEN [saver EXCEPT ![t] =
                        Some(Checkpoint(AgentState(<<>>, TWITTER, <<>>, <<>>, t),
                                        "end"))]
               ELSE saver]

\* compiled_graph.aget_state(config): the latest checkpoint of the thread
\* (none: a snapshot with empty values), read from the saver, which it
\* leaves as it is
aget_state(saver, t) == [snapshot |-> saver[t], saver |-> saver]

\* GET /posts/{thread_id}: get_post_status reads the thread's state from the
\* module-level graph and describes it; a snapshot's values are never None,
\* so a thread id without a checkpoint is answered with status "unknown" and
\* the default platform
get_post_status(r, t) ==
    /\ frontend = "http"
    /\ FreeSlot(r)
    /\ LET state == aget_state(checkpoints, t)
           values == IF IsNone(state.snapshot) THEN None
                     ELSE Some(Val(state.snapshot).values)
       IN  /\ checkpoints' = state.saver
           /\ inv' = [inv EXCEPT ![r] =
                  [IdleInv EXCEPT
                      !.pc = "responded", !.kind = "inspect", !.tid = t,
                      !.code = "ok", !.st = values,
                      !.held = CursorClass(checkpoints[t]),
                      !.platform = IF IsNone(values) THEN TWITTER
                                   ELSE Val(values).platform]]
    /\ UNCHANGED <<frontend, pending_threads, started, lost, draft_runs,
                   publish_calls, only_rejects, parse_vars, resumes>>

\* the server with its status endpoint in use: starts and resumes come one
\* at a time, a status request at any time, also while one of them runs
NextInspect ==
    \/ NextSeq
    \/ \E r \in Reqs, t \in Threads : get_post_status(r, t)
    \/ \E r \in Reqs : Deliver(r)

SpecInspect == Init /\ [][NextInspect]_vars

\* slot r answers a GET /posts/{t} in this step
Inspects(r, t) ==
    /\ Free(r)
    /\ inv'[r].kind = "inspect"
    /\ inv'[r].tid = t

\* C25: a call of get_post_status, at any point of a thread's life and for
\* any thread id, leaves every thread's checkpoint (state and next node),
\* the registry and every other request as they were, creates no
\* checkpoint, and reports the persisted state it found.
C25_InspectReadOnly ==
    [][\A r \in Reqs, t \in Threads :
          Inspects(r, t) =>
              /\ checkpoints' = checkpoints
              /\ pending_threads' = pending_threads
              /\ \A q \in Reqs \ {r} : inv'[q] = inv[q]
              /\ started' = started
              /\ inv'[r].st = IF IsNone(checkpoints[t]) THEN None
                              ELSE Some(Persisted(t))]_vars

\* C25 witness: the status of a thread id that was never started has been
\* asked for while another thread is suspended and a resume of it is running.
C25_Witness ==
    \E r, q \in Reqs :
        /\ inv[r].kind = "inspect" /\ inv[r].tid = 2 /\ Responded(r)
        /\ IsNone(checkpoints[2])
        /\ inv[q].kind = "resume" /\ inv[q].tid = 1 /\ GraphRunning(q)
        /\ ~IsNone(pending_threads[1])

\* the inputs of a thread, as a state carries them
Inputs(state) ==
    [topic |-> state.topic, platform |-> state.platform, tone |-> state.tone,
     additional_context |-> state.additional_context,
     thread_id |-> state.thread_id]

\* C26: topic, platform, tone, additional_context and thread_id of a thread
\* are the same in every later persisted state as in the earlier one, no
\* node changes them in the state it returns, the thread_id is the key the
\* state is persisted under, and the draft's platform is the thread's.
C26_ImmutableInputs ==
    /\ [](/\ \A t \in Threads :
                 ~IsNone(checkpoints[t]) =>
                     /\ Persisted(t).thread_id = t
                     /\ ~IsNone(Persisted(t).post_content) =>
                            Val(Persisted(t).post_content).platform =
                                Persisted(t).platform
          /\ \A r \in Reqs :
                 ~IsNone(inv[r].st) =>
                     /\ Val(inv[r].st).thread_id = inv[r].tid
                     /\ ~IsNone(Val(inv[r].st).post_content) =>
                            Val(Val(inv[r].st).post_content).platform =
                                Val(inv[r].st).platform)
    /\ [][/\ \A t \in Threads :
                 (~IsNone(checkpoints[t]) /\ ~IsNone(checkpoints'[t])) =>
                     Inputs(Val(checkpoints'[t]).values) = Inputs(Persisted(t))
          /\ \A r \in Reqs :
                 (GraphRunning(r) /\ ~IsNone(inv'[r].st)) =>
                     Inputs(Val(inv'[r].st)) = Inputs(Val(inv[r].st))]_vars

\* C26 witness: a linkedin thread was regenerated, edited and published, and
\* its persisted state still names linkedin and the topic it was created with.
C26_Witness ==
    \E t \in Threads :
        /\ ~IsNone(checkpoints[t])
        /\ Persisted(t).status = PUBLISHED
        /\ draft_runs[t] >= 2
        /\ Val(Persisted(t).post_content).text = NEW_COPY
        /\ Inputs(Persisted(t)) =
               Inputs(AgentState(<<"A", "I">>, LINKEDIN, <<"p", "r", "o">>, <<>>, t))

\* ----------------------------------------------------------------- replay
\* ticks the clock makes while a checkpoint is run again
MaxClock == 2

\* PostContent(...) with its created_at = Field(default_factory=utcnow): a
\* draft a node has just built gets the time of its construction, a draft
\* carried over in the state keeps the one it has
WithCreatedAt(state, now) ==
    IF IsNone(state.post_content)
           \/ "created_at" \in DOMAIN Val(state.post_content)
    THEN state
    ELSE LET pc == Val(state.post_content)
         IN  [state EXCEPT !.post_content =
                 Some([text |-> pc.text, platform |-> pc.platform,
                       hashtags |-> pc.hashtags, created_at |-> now])]

\* what an ainvoke gives back: the state, the node that would run next, and
\* whether a node raised
RunResult(values, next, raised) ==
    [values |-> values, next |-> next, raised |-> raised]

\* what connector.publish does with the text: it raises on content that does
\* not validate, otherwise the collaborator's outcome stands
Published(state, outcome) ==
    IF outcome.ok
           /\ ~validate_content(state.platform,
                                formatted_text(Val(state.post_content)))
    THEN [ok |-> FALSE, url |-> None, error |-> "publish failed"]
    ELSE outcome

RECURSIVE RunGraph(_, _, _, _, _, _)
\* the graph loop from a checkpoint (values, next): the nodes of
\* create_graph in order, the resume value for the first node only, the LLM
\* and the connector answering llm and outcome, the clock reading now
RunGraph(values, next, resume, llm, outcome, now) ==
    IF next = "generate"
    THEN RunGraph(WithCreatedAt(generate_post(values, llm), now),
                  "request_approval", None, llm, outcome, now)
    ELSE IF next = "request_approval"
    THEN IF IsNone(values.post_content)
         THEN RunGraph(request_approval_no_content(values), "process_feedback",
                       None, llm, outcome, now)
         ELSE IF IsNone(resume)
         THEN RunResult(values, "request_approval", FALSE)
         ELSE IF _parse_human_response(Val(resume)).ok
         THEN RunGraph(request_approval(values,
                           _parse_human_response(Val(resume)).value),
                       "process_feedback", None, llm, outcome, now)
         ELSE RunResult(values, "request_approval", TRUE)
    ELSE IF next = "process_feedback"
    THEN LET new == WithCreatedAt(process_feedback(values), now)
         IN  RunGraph(new, should_regenerate(new), None, llm, outcome, now)
    ELSE IF next = "publish"
    THEN IF IsNone(values.post_content)
         THEN RunResult(publish_post_no_content(values), "end", FALSE)
         ELSE RunResult(publish_post(values, Published(values, outcome)),
                        "end", FALSE)
    ELSE RunResult(values, "end", FALSE)

\* the checkpoints start leaves behind: a first draft, made at tick 0,
\* suspended at the approval node
ReplayCheckpoints ==
    {LET run == RunGraph(AgentState(<<"A", "I">>, platform, <<"p", "r", "o">>,
                                    <<>>, 1),
                         "generate", None, llm, None, 0)
     IN  Checkpoint(run.values, run.next) :
         platform \in Platform, llm \in LLMResponses}

ReplayInit ==
    /\ frontend = "http"
    /\ WorkflowInit
    /\ parse_in = StrValue(<<>>)
    /\ parse_out = None
    /\ draft_in = NoDraft
    /\ render_out = None
    /\ route_in = NoState
    /\ route_out = None
    /\ clock = 0
    /\ replay \in [cp : {Some(cp) : cp \in ReplayCheckpoints},
                   resume : {Some(f) : f \in HttpFeedbacks},
                   llm : {Some(llm) : llm \in LLMResponses},
                   outcome : {Some(o) : o \in PublishOutcomes},
                   results : {<<>>}]

\* the graph is run from the checkpoint, with the resume value and the
\* collaborator responses chosen at the start
ReplayRun ==
    /\ Len(replay.results) < 2
    /\ replay' = [replay EXCEPT !.results =
           Append(@, RunGraph(Val(replay.cp).values, Val(replay.cp).next,
                              replay.resume, Val(replay.llm),
                              Val(replay.outcome), clock))]
    /\ UNCHANGED <<frontend, checkpoints, pending_threads, inv, started,
                   resumes, lost, draft_runs, publish_calls, only_rejects,
                   parse_in, parse_out, clock, draft_in, render_out, route_in,
                   route_out>>

\* time passes
Tick ==
    /\ clock < MaxClock
    /\ clock' = clock + 1
    /\ UNCHANGED <<frontend, checkpoints, pending_threads, inv, started,
                   resumes, lost, draft_runs, publish_calls, only_rejects,
                   parse_in, parse_out, replay, draft_in, render_out, route_in,
                   route_out>>

NextReplay == ReplayRun \/ Tick

SpecReplay == ReplayInit /\ [][NextReplay]_vars

\* C27 (as claimed): two runs of the graph from the same checkpoint, with
\* the same resume value and the same collaborator responses, end in states
\* that are equal in every field.
C27_ReplayDeterminism ==
    Len(replay.results) = 2 => replay.results[1] = replay.results[2]

\* ------------------------------------------------- PostContent alone
\* hashtags a draft carries when its properties are studied alone
MaxTags == 3

\* draft bodies
Bodies == {<<>>, <<"H", "i">>, <<"Y", "o", " ", "!">>, <<"a", "\n", "b">>}

\* hashtag lists of up to MaxTags tags
TagLists == UNION {[1..n -> {<<"a">>, <<"b", "c">>}] : n \in 0..MaxTags}

\* the drafts whose properties are read
Drafts ==
    {PostContent(text, platform, tags) :
         text \in Bodies, platform \in Platform, tags \in TagLists}

RenderInit ==
    /\ frontend = "http"
    /\ WorkflowInit
    /\ parse_in = StrValue(<<>>)
    /\ parse_out = None
    /\ clock = 0
    /\ replay = NoReplay
    /\ draft_in \in Drafts
    /\ render_out = None
    /\ route_in = NoState
    /\ route_out = None

\* post_content.formatted_text and post_content.char_count are read
Render ==
    /\ IsNone(render_out)
    /\ render_out' = Some([formatted_text |-> formatted_text(draft_in),
                           char_count |-> char_count(draft_in)])
    /\ UNCHANGED <<frontend, checkpoints, pending_threads, inv, started,
                   resumes, lost, draft_runs, publish_calls, only_rejects,
                   parse_in, parse_out, clock, replay, draft_in, route_in,
                   route_out>>

SpecRender == RenderInit /\ [][Render]_vars

\* the hashtags, each prefixed with #, joined by single spaces
HashLine(tags) == JoinWith([i \in 1..Len(tags) |-> <<"#">> \o tags[i]], <<" ">>)

\* C28 (as claimed): for every draft, also one without hashtags, the
\* rendered text is the body, a blank line, and the hashtags each prefixed
\* with # and joined by single spaces, and the length is the character count
\* of that rendered text.
C28_RenderedAsClaimed ==
    ~IsNone(render_out) =>
        /\ Val(render_out).formatted_text =
               draft_in.text \o <<"\n", "\n">> \o HashLine(draft_in.hashtags)
        /\ Val(render_out).char_count = Len(Val(render_out).formatted_text)

\* C28 (amended): for a draft with hashtags the rendered text is the body, a
\* blank line, and the hashtags each prefixed with # and joined by single
\* spaces; for a draft without hashtags it is the body alone, with no blank
\* line after it; the length is the character count of the rendered text.
C28_RenderedText ==
    ~IsNone(render_out) =>
        /\ draft_in.hashtags # <<>> =>
               Val(render_out).formatted_text =
                   draft_in.text \o <<"\n", "\n">> \o HashLine(draft_in.hashtags)
        /\ draft_in.hashtags = <<>> =>
               Val(render_out).formatted_text = draft_in.text
        /\ Val(render_out).char_count = Len(Val(render_out).formatted_text)

\* C28 witness: a draft with a body and two hashtags has been rendered.
C28_Witness ==
    /\ ~IsNone(render_out)
    /\ draft_in.text = <<"H", "i">>
    /\ draft_in.hashtags = <<<<"a">>, <<"b", "c">>>>
    /\ Val(render_out).char_count = 10

\* slot r accepts a resume of thread t in this step and loads its checkpoint
Loads(r, t) ==
    /\ Free(r)
    /\ inv'[r].kind = "resume"
    /\ inv'[r].tid = t
    /\ inv'[r].code # "not_found"

\* C29 (as claimed): a load of a thread id returns the state and the next
\* node of the last checkpoint saved under it.
C29_CheckpointRoundTrip ==
    [][\A r \in Reqs, t \in Threads :
          (Loads(r, t) /\ ~IsNone(checkpoints[t])) =>
              /\ inv'[r].st = Some(Persisted(t))
              /\ inv'[r].pc = Val(checkpoints[t]).next]_vars

\* -------------------------------------------------- should_regenerate alone
\* the states the conditional edge may be handed: every status, with and
\* without draft and feedback, at every attempt count
RouteStates ==
    {[AgentState(<<"A", "I">>, platform, <<"p", "r", "o">>, <<>>, 1) EXCEPT
          !.status = status,
          !.generation_attempts = attempts,
          !.human_feedback = feedback,
          !.post_content =
              IF drafted
              THEN Some(PostContent(<<"H", "i">>, platform, <<<<"a">>>>))
              ELSE None] :
         platform \in Platform, status \in PostStatus,
         attempts \in 0..DefaultMaxAttempts,
         feedback \in {None} \cup
             {Some(HumanFeedback(a, None, None)) : a \in FeedbackActions},
         drafted \in BOOLEAN}

RouteInit ==
    /\ frontend = "http"
    /\ WorkflowInit
    /\ parse_in = StrValue(<<>>)
    /\ parse_out = None
    /\ clock = 0
    /\ replay = NoReplay
    /\ draft_in = NoDraft
    /\ render_out = None
    /\ route_in \in RouteStates
    /\ route_out = None

\* the conditional edge after process_feedback: should_regenerate is called
\* with the state and returns the name of the next node; the state object is
\* the one it was given
Route ==
    /\ IsNone(route_out)
    /\ route_out' = Some([state |-> route_in,
                          next |-> should_regenerate(route_in)])
    /\ UNCHANGED <<frontend, checkpoints, pending_threads, inv, started,
                   resumes, lost, draft_runs, publish_calls, only_rejects,
                   parse_in, parse_out, clock, replay, draft_in, render_out,
                   route_in>>

SpecRoute == RouteInit /\ [][Route]_vars

\* C30: should_regenerate routes to publish exactly when status is APPROVED,
\* to the draft node exactly when status is DRAFT, and to the end marker for
\* PENDING_APPROVAL, REJECTED, PUBLISHED and FAILED, whatever the other
\* fields of the state are, and leaves the state as it was.
C30_BranchFunction ==
    ~IsNone(route_out) =>
        /\ Val(route_out).next = "publish" <=> route_in.status = APPROVED
        /\ Val(route_out).next = "generate" <=> route_in.status = DRAFT
        /\ Val(route_out).next = "end" <=>
               route_in.status \in {PENDING_APPROVAL, REJECTED, PUBLISHED, FAILED}
        /\ Val(route_out).state = route_in

\* C30 witness: a FAILED state that still carries a reject and a draft has
\* been routed to the end marker.
C30_Witness ==
    /\ ~IsNone(route_out)
    /\ route_in.status = FAILED
    /\ route_in.human_feedback = Some(HumanFeedback("reject", None, None))
    /\ ~IsNone(route_in.post_content)
    /\ Val(route_out).next = "end"

\* the attempt count of a state is within its budget
WithinBudget(state) ==
    /\ state.max_attempts >= 1
    /\ 0 <= state.generation_attempts
    /\ state.generation_attempts <= state.max_attempts

\* C31: in every state of a thread, persisted or held by a graph invocation,
\* 0 <= generation_attempts <= max_attempts, and the draft node is about to
\* run only on a state with generation_attempts < max_attempts.
C31_BudgetInvariant ==
    /\ \A t \in Threads :
           ~IsNone(checkpoints[t]) =>
               /\ WithinBudget(Persisted(t))
               /\ Val(checkpoints[t]).next = "generate" =>
                      Persisted(t).generation_attempts < Persisted(t).max_attempts
    /\ \A r \in Reqs :
           ~IsNone(inv[r].st) =>
               /\ WithinBudget(Val(inv[r].st))
               /\ inv[r].pc = "generate" =>
                      Val(inv[r].st).generation_attempts <
                          Val(inv[r].st).max_attempts

\* C31 witness: the last draft the budget allows has been made and rejected,
\* and the thread has FAILED with its attempt count at the limit.
C31_Witness ==
    \E t \in Threads :
        /\ ~IsNone(checkpoints[t])
        /\ Persisted(t).status = FAILED
        /\ Persisted(t).generation_attempts = Persisted(t).max_attempts
        /\ Persisted(t).human_feedback = Some(HumanFeedback("reject", None, None))

\* the draft of the approval request the human was last shown for thread t:
\* the one in the result the front-end last returned and registered
ShownDraft(t) == Val(Val(pending_threads[t]).result).post_content

\* the draft sh with only its body replaced by text
WithBody(sh, text) == [sh EXCEPT !.text = text]

\* C32 (as claimed): while connector.publish is being called with the
\* rendered text of the invocation's draft, that draft is the thread's
\* current (persisted) draft, and it is the draft of the most recent approval
\* request (approve) or that draft with only its body replaced by the
\* edited_text (edit); the draft node has not run since that request.
C32_ApprovedIsPublished ==
    \A r \in Reqs :
        inv[r].pc = "publish_wait" =>
            LET t == inv[r].tid
                state == Val(inv[r].st)
                feedback == Val(state.human_feedback)
            IN  /\ ~IsNone(checkpoints[t])
                /\ Persisted(t).post_content = state.post_content
                /\ ~IsNone(pending_threads[t])
                /\ ~IsNone(Val(pending_threads[t]).result)
                /\ ~IsNone(ShownDraft(t))
                /\ feedback.action = "approve" =>
                       state.post_content = ShownDraft(t)
                /\ feedback.action = "edit" =>
                       /\ ~IsNone(feedback.edited_text)
                       /\ state.post_content =
                              Some(WithBody(Val(ShownDraft(t)),
                                            Val(feedback.edited_text)))
                /\ draft_runs[t] =
                       Val(Val(pending_threads[t]).result).generation_attempts

\* the resume of slot r took the suspended checkpoint of its thread and its
\* approval node has handed its answer on as the thread's feedback
AnswerApplied(r) ==
    /\ inv[r].kind = "resume"
    /\ inv[r].loaded = "suspended"
    /\ inv[r].pc \in {"process_feedback", "generate", "publish", "publish_wait"}

\* C33 (as claimed): of two resume requests in flight for one suspended
\* thread of the HTTP front-end at most one has its answer applied, and no
\* resume whose graph run returned is answered with an error (the registry
\* entry it updates is still there).
C33_ConcurrentResumesOnce ==
    /\ [](\A r1, r2 \in Reqs :
              (frontend = "http" /\ r1 # r2 /\ inv[r1].tid = inv[r2].tid
                   /\ AnswerApplied(r1)) =>
                  ~AnswerApplied(r2))
    /\ [][\A r \in Reqs :
             (frontend = "http" /\ inv[r].kind = "resume"
                  /\ inv[r].pc \in {"interrupted", "end"}
                  /\ inv'[r].pc = "responded") =>
                 inv'[r].code = "ok"]_vars

\* thread t is in the registry with a recorded status of pending_approval
RegisteredPending(t) ==
    /\ ~IsNone(pending_threads[t])
    /\ ResultStatus(Val(pending_threads[t]).result, "unknown") = PENDING_APPROVAL

\* C34 (as claimed): whenever no call of the HTTP front-end is in flight, a
\* thread is registered with recorded status pending_approval exactly when
\* its checkpoint is suspended at the approval node, a PUBLISHED or FAILED
\* thread is not registered, and the recorded result of a registered thread
\* is its persisted state.
C34_RegistryMatchesCheckpoints ==
    (frontend = "http" /\ \A r \in Reqs : ~InFlight(r)) =>
        \A t \in Threads :
            /\ RegisteredPending(t) <=> CursorClass(checkpoints[t]) = "suspended"
            /\ CursorClass(checkpoints[t]) = "terminal" => IsNone(pending_threads[t])
            /\ ~IsNone(pending_threads[t]) =>
                   /\ ~IsNone(checkpoints[t])
                   /\ Val(pending_threads[t]).result = Some(Persisted(t))

\* a state whose result fields fit its status
ResultComplete(state) ==
    /\ state.status = PUBLISHED =>
           /\ ~IsNone(state.published_url)
           /\ IsNone(state.error_message)
    /\ state.status # PUBLISHED => IsNone(state.published_url)

\* C35: wherever a thread's state has status PUBLISHED, in its checkpoint or
\* in the state a graph invocation holds or returns, published_url is present
\* and error_message is absent; in every state with another status
\* published_url is absent.
C35_PublishedComplete ==
    /\ \A t \in Threads :
           ~IsNone(checkpoints[t]) => ResultComplete(Persisted(t))
    /\ \A r \in Reqs :
           ~IsNone(inv[r].st) => ResultComplete(Val(inv[r].st))
    /\ \A t \in Threads :
           (~IsNone(pending_threads[t]) /\ ~IsNone(Val(pending_threads[t]).result)) =>
               ResultComplete(Val(Val(pending_threads[t]).result))

\* C35 witness: one thread has been published, with its url and no error
\* persisted, and another call of connector.publish for it has failed.
C35_Witness ==
    \E t \in Threads, r \in Reqs :
        /\ ~IsNone(checkpoints[t])
        /\ Persisted(t).status = PUBLISHED
        /\ Persisted(t).published_url = Some("https://post/1")
        /\ IsNone(Persisted(t).error_message)
        /\ inv[r].tid = t
        /\ ~IsNone(inv[r].st)
        /\ Val(inv[r].st).status = FAILED
        /\ IsNone(Val(inv[r].st).published_url)

\* the errors the nodes record when they find no draft
MissingDraftErrors ==
    {Some(ErrorMessage("No post content to approve", 0)),
     Some(ErrorMessage("No post content to publish", 0))}

\* C36: request_approval never runs on a state without draft,
\* process_feedback never on a state without feedback, publish_post never on
\* a state without draft; no graph run ends with status PENDING_APPROVAL,
\* and no state, held or persisted, carries a missing-draft error.
C36_DefensiveUnreachable ==
    /\ \A r \in Reqs :
           /\ inv[r].pc = "request_approval" =>
                  ~IsNone(Val(inv[r].st).post_content)
           /\ inv[r].pc = "process_feedback" =>
                  ~IsNone(Val(inv[r].st).human_feedback)
           /\ inv[r].pc \in {"publish", "publish_wait"} =>
                  ~IsNone(Val(inv[r].st).post_content)
           /\ (inv[r].pc = "end" /\ ~IsNone(inv[r].st)) =>
                  Val(inv[r].st).status # PENDING_APPROVAL
           /\ ~IsNone(inv[r].st) =>
                  Val(inv[r].st).error_message \notin MissingDraftErrors
    /\ \A t \in Threads :
           ~IsNone(checkpoints[t]) =>
               /\ Persisted(t).error_message \notin MissingDraftErrors
               /\ Val(checkpoints[t]).next = "end" =>
                      Persisted(t).status # PENDING_APPROVAL

\* C36 witness: a resume has gone through request_approval, process_feedback
\* and publish_post and its graph run has ended PUBLISHED without an error.
C36_Witness ==
    \E r \in Reqs :
        /\ inv[r].pc = "end"
        /\ inv[r].kind = "resume"
        /\ inv[r].loaded = "suspended"
        /\ ~IsNone(inv[r].st)
        /\ Val(inv[r].st).status = PUBLISHED
        /\ IsNone(Val(inv[r].st).error_message)

\* C37 (as claimed): the platform field of every response of the HTTP
\* approve endpoint is the platform the thread was created with, also when
\* the thread became PUBLISHED or FAILED and left the registry in that call.
C37_ResponsePlatform ==
    \A r \in Reqs :
        (frontend = "http" /\ Responded(r) /\ inv[r].kind = "resume"
             /\ inv[r].code = "ok" /\ ~IsNone(inv[r].st)) =>
            inv[r].platform = Val(inv[r].st).platform

====
